---------------------------- MODULE Spec2Model ----------------------------
(***************************************************************************)
(* Model of the Laravel factory generator of devdb-vscode:                 *)
(*   - the column classifier, the definitions renderer and the regex       *)
(*     splice of LaravelFactoryGenerator (services/laravel/factory-        *)
(*     generator), as operators over strings;                              *)
(*   - the generateFactory workflow, started by the command                *)
(*     'devdb.laravel.generate-factory', as a state machine with one       *)
(*     program counter per invocation.                                     *)
(* JavaScript strings are TLA+ strings; indices are 1-based.               *)
(***************************************************************************)
EXTENDS Integers, Sequences, FiniteSets, TLC

VARIABLES
    stage,          \* position of the pure pipeline (SpecClassify, SpecGen)
    column,         \* the Column handed to getFakerMethodForColumn
    fakerMethod,    \* its result
    inColumns,      \* columns: Column[] handed to generateColumnDefinitions
    inContent,      \* content: the file text handed to the splice
    definitions,    \* result of generateColumnDefinitions
    updatedContent, \* result of content.replace(...)
    reapplied,      \* result of the same replace applied to updatedContent
    database,       \* the DatabaseEngine exported by services/messenger, or null
    workspaceTables,\* getWorkspaceTables()
    factoryFile,    \* database/factories/<Model>Factory.php in the workspace
    pc,             \* where each invocation of generateFactory is suspended
    modelName,      \* its argument modelName
    content,        \* updateFactoryContent: const content
    columns,        \* updateFactoryContent: const columns
    newContent,     \* updateFactoryContent: const updatedContent
    log             \* per invocation: the calls it made and the messages it showed

pureVars == <<stage, column, fakerMethod, inColumns, inContent, definitions,
              updatedContent, reapplied>>

flowVars == <<database, workspaceTables, factoryFile, pc, modelName, content,
              columns, newContent, log>>

vars == <<pureVars, flowVars>>

-----------------------------------------------------------------------------
(* JavaScript string primitives                                            *)

CharAt(s, i) == SubSeq(s, i, i)

UpperCase == "ABCDEFGHIJKLMNOPQRSTUVWXYZ"
LowerCase == "abcdefghijklmnopqrstuvwxyz"

\* String.prototype.toLowerCase on one character (ASCII letters).
toLowerChar(c) ==
    IF \E i \in 1..Len(UpperCase) : CharAt(UpperCase, i) = c
    THEN CharAt(LowerCase, CHOOSE i \in 1..Len(UpperCase) : CharAt(UpperCase, i) = c)
    ELSE c

RECURSIVE toLowerCase(_)
toLowerCase(s) ==
    IF s = "" THEN ""
    ELSE toLowerChar(CharAt(s, 1)) \o toLowerCase(SubSeq(s, 2, Len(s)))

\* String.prototype.includes: scan the start positions from the left.
RECURSIVE includesFrom(_, _, _)
includesFrom(s, search, p) ==
    IF p + Len(search) - 1 > Len(s) THEN FALSE
    ELSE IF SubSeq(s, p, p + Len(search) - 1) = search THEN TRUE
    ELSE includesFrom(s, search, p + 1)

includes(s, search) == includesFrom(s, search, 1)

\* The ASCII white space that trim removes.
WhiteSpace == {" ", "\t", "\n", "\r", "\f"}

\* String.prototype.trim
RECURSIVE trimStart(_)
trimStart(s) ==
    IF s # "" /\ CharAt(s, 1) \in WhiteSpace THEN trimStart(SubSeq(s, 2, Len(s))) ELSE s

RECURSIVE trimEnd(_)
trimEnd(s) ==
    IF s # "" /\ CharAt(s, Len(s)) \in WhiteSpace THEN trimEnd(SubSeq(s, 1, Len(s) - 1)) ELSE s

trim(s) == trimEnd(trimStart(s))

-----------------------------------------------------------------------------
(* getFakerMethodForColumn                                                 *)

\* The own properties of the object literal typeMap.
typeMapKeys ==
    {"varchar", "char", "text", "integer", "bigint", "boolean", "date",
     "datetime", "timestamp", "decimal", "float", "json", "uuid"}

typeMap ==
    [k \in typeMapKeys |->
        CASE k = "varchar"   -> "$this->faker->text()"
          [] k = "char"      -> "$this->faker->text()"
          [] k = "text"      -> "$this->faker->paragraph()"
          [] k = "integer"   -> "$this->faker->numberBetween(1, 1000)"
          [] k = "bigint"    -> "$this->faker->numberBetween(1, 1000)"
          [] k = "boolean"   -> "$this->faker->boolean()"
          [] k = "date"      -> "$this->faker->date()"
          [] k = "datetime"  -> "$this->faker->dateTime()"
          [] k = "timestamp" -> "$this->faker->dateTime()"
          [] k = "decimal"   -> "$this->faker->randomFloat(2, 0, 1000)"
          [] k = "float"     -> "$this->faker->randomFloat(2, 0, 1000)"
          [] k = "json"      -> "$this->faker->json()"
          [] k = "uuid"      -> "$this->faker->uuid()"]

\* typeMap is an ordinary object literal, so typeMap[type] also finds the
\* properties inherited from Object.prototype.  None of them is a string; each
\* is truthy, so `||` returns it.  The value is carried here by its string
\* conversion, which is what the template literal of generateColumnDefinitions
\* makes of it.
objectPrototypeKeys ==
    {"constructor", "__proto__", "toString", "valueOf", "hasOwnProperty",
     "isPrototypeOf", "propertyIsEnumerable", "toLocaleString"}

objectPrototype ==
    [k \in objectPrototypeKeys |->
        IF k = "__proto__" THEN "[object Object]"
        ELSE IF k = "constructor" THEN "function Object() { [native code] }"
        ELSE "function " \o k \o "() { [native code] }"]

\* typeMap[type] || 'fake()->text()'
typeMapLookup(type) ==
    IF type \in typeMapKeys THEN typeMap[type]
    ELSE IF type \in objectPrototypeKeys THEN objectPrototype[type]
    ELSE "fake()->text()"

getFakerMethodForColumn_NameFirst(col) ==
    LET type == toLowerCase(col.type)
        columnName == toLowerCase(col.name)
    IN  IF includes(columnName, "name") THEN "fake()->name()"
        ELSE IF includes(columnName, "email") THEN "fake()->safeEmail()"
        ELSE IF includes(columnName, "phone") THEN "fake()->phoneNumber()"
        ELSE IF includes(columnName, "address") THEN "fake()->address()"
        ELSE typeMapLookup(type)

getFakerMethodForColumn(col) ==
    LET type == toLowerCase(col.type)
        columnName == toLowerCase(col.name)
    IN  IF includes(columnName, "email") THEN "fake()->safeEmail()"
        ELSE IF includes(columnName, "name") THEN "fake()->name()"
        ELSE IF includes(columnName, "phone") THEN "fake()->phoneNumber()"
        ELSE IF includes(columnName, "address") THEN "fake()->address()"
        ELSE typeMapLookup(type)

-----------------------------------------------------------------------------
(* generateColumnDefinitions                                               *)

\* `            '${column.name}' => ${fakerMethod},`
columnLine(col) ==
    "            '" \o col.name \o "' => " \o getFakerMethodForColumn(col) \o ","

\* Array.prototype.join('\n')
RECURSIVE join(_, _)
join(lines, sep) ==
    IF Len(lines) = 0 THEN ""
    ELSE IF Len(lines) = 1 THEN lines[1]
    ELSE lines[1] \o sep \o join(Tail(lines), sep)

generateColumnDefinitions_Reversed(cols) ==
    join([i \in 1..Len(cols) |-> columnLine(cols[Len(cols) + 1 - i])], "\n")

generateColumnDefinitions(cols) ==
    join([i \in 1..Len(cols) |-> columnLine(cols[i])], "\n")

-----------------------------------------------------------------------------
(* content.replace(/return \[([\s\S]*?)\];/, `return [\n${definitions}\n        ];`) *)

NoMatch == [index |-> 0, matched |-> "", capture1 |-> ""]

startsWithAt(str, p, lit) ==
    p + Len(lit) - 1 <= Len(str) /\ SubSeq(str, p, p + Len(lit) - 1) = lit

\* ([\s\S]*?)\];  from position q: the lazy star first tries the continuation
\* `];`, and takes one more character (any character) only when that fails, so
\* the body ends at the leftmost `];` of q..Len.  The positions lo..hi are
\* scanned from the left, by halves to keep the evaluation shallow.  The result
\* is the position of the closing `];`, or 0.
RECURSIVE lazyBodyIn(_, _, _)
lazyBodyIn(str, lo, hi) ==
    IF lo > hi THEN 0
    ELSE IF lo = hi THEN (IF startsWithAt(str, lo, "];") THEN lo ELSE 0)
    ELSE LET mid  == (lo + hi) \div 2
             left == lazyBodyIn(str, lo, mid)
         IN  IF left # 0 THEN left ELSE lazyBodyIn(str, mid + 1, hi)

lazyBody(str, q) == lazyBodyIn(str, q, Len(str))

\* The greedy star: the rightmost `];` of q..Len.
RECURSIVE greedyBodyIn(_, _, _)
greedyBodyIn(str, lo, hi) ==
    IF lo > hi THEN 0
    ELSE IF lo = hi THEN (IF startsWithAt(str, lo, "];") THEN lo ELSE 0)
    ELSE LET mid   == (lo + hi) \div 2
             right == greedyBodyIn(str, mid + 1, hi)
         IN  IF right # 0 THEN right ELSE greedyBodyIn(str, lo, mid)

greedyBody(str, q) == greedyBodyIn(str, q, Len(str))

\* The body of the pattern after the literal `return [`.
matchBody(str, q) == lazyBody(str, q)

\* One attempt of the pattern at start position p.
matchAt(str, p) ==
    IF startsWithAt(str, p, "return [") THEN matchBody(str, p + Len("return [")) ELSE 0

\* The leftmost start position of lo..hi at which the pattern matches, 0 when
\* there is none.
RECURSIVE firstMatchIn(_, _, _)
firstMatchIn(str, lo, hi) ==
    IF lo > hi THEN 0
    ELSE IF lo = hi THEN (IF matchAt(str, lo) # 0 THEN lo ELSE 0)
    ELSE LET mid  == (lo + hi) \div 2
             left == firstMatchIn(str, lo, mid)
         IN  IF left # 0 THEN left ELSE firstMatchIn(str, mid + 1, hi)

\* RegExp exec without the g flag: the match at the leftmost start position.
regExpExec(str) ==
    LET p == firstMatchIn(str, 1, Len(str))
        q == matchAt(str, p)
    IN  IF p = 0 THEN NoMatch
        ELSE [index    |-> p,
              matched  |-> SubSeq(str, p, q + 1),
              capture1 |-> SubSeq(str, p + Len("return ["), q - 1)]

\* Position of the first `$` of text, 0 when there is none.
indexOfDollar(text) ==
    IF \E i \in 1..Len(text) : CharAt(text, i) = "$"
    THEN CHOOSE i \in 1..Len(text) :
             CharAt(text, i) = "$" /\ \A j \in 1..(i - 1) : CharAt(text, j) # "$"
    ELSE 0

\* GetSubstitution of String.prototype.replace with a string replacement and a
\* pattern of one capture group: the replacement is copied up to each `$`;
\* $$, $&, $`, $', $1 and $01 are expanded, every other `$` is literal ($1x
\* with x a digit is $1 followed by x).
RECURSIVE GetSubstitution(_, _, _, _, _)
GetSubstitution(matched, str, position, capture1, replacement) ==
    LET d == indexOfDollar(replacement)
        n == Len(replacement)
        c2 == IF d + 1 <= n THEN CharAt(replacement, d + 1) ELSE ""
        c3 == IF d + 2 <= n THEN CharAt(replacement, d + 2) ELSE ""
        rest(k) == GetSubstitution(matched, str, position, capture1,
                                   SubSeq(replacement, d + k, n))
    IN  IF d = 0 THEN replacement
        ELSE SubSeq(replacement, 1, d - 1) \o
             (IF c2 = "$" THEN "$" \o rest(2)
              ELSE IF c2 = "&" THEN matched \o rest(2)
              ELSE IF c2 = "`" THEN SubSeq(str, 1, position - 1) \o rest(2)
              ELSE IF c2 = "'" THEN SubSeq(str, position + Len(matched), Len(str)) \o rest(2)
              ELSE IF c2 = "0" /\ c3 = "1" THEN capture1 \o rest(3)
              ELSE IF c2 = "1" THEN capture1 \o rest(2)
              ELSE "$" \o rest(1))

\* The template literal of the second argument.
replacementFor(defs) == "return [\n" \o defs \o "\n        ];"

\* A replace that appends the replacement when the pattern is not found.
replace_AppendOnNoMatch(str, replacement) ==
    LET m == regExpExec(str)
    IN  IF m.index = 0 THEN str \o replacement
        ELSE SubSeq(str, 1, m.index - 1)
             \o GetSubstitution(m.matched, str, m.index, m.capture1, replacement)
             \o SubSeq(str, m.index + Len(m.matched), Len(str))

\* String.prototype.replace(regexp, string): the first match only.
replace(str, replacement) ==
    LET m == regExpExec(str)
    IN  IF m.index = 0 THEN str
        ELSE SubSeq(str, 1, m.index - 1)
             \o GetSubstitution(m.matched, str, m.index, m.capture1, replacement)
             \o SubSeq(str, m.index + Len(m.matched), Len(str))

-----------------------------------------------------------------------------
(* The workflow: LaravelFactoryGenerator.generateFactory                   *)

\* No column classified yet.
NoColumn == [name |-> "", type |-> ""]

MaxInvocations == 2

Invocations == 1..MaxInvocations

NoFile == [exists |-> FALSE, text |-> ""]
File(text) == [exists |-> TRUE, text |-> text]

\* What `artisan make:factory` leaves in database/factories: the skeleton with
\* the `return [ ... ];` literal, or (another stub, another version) a file
\* without one.
Skeletons ==
    {"    {\n        return [\n            //\n        ];\n    }\n",
     "<?php\nclass UserFactory {}\n"}

\* The columns of the model's table in the connected database: what
\* database.getColumns(tableName) resolves to.
TableColumns ==
    {<<[name |-> "email", type |-> "varchar"]>>,
     <<[name |-> "age", type |-> "integer"], [name |-> "bio", type |-> "TEXT"]>>}

ModelNames == {"User", "", " \t"}

\* The `database` exported by services/messenger: null, or a DatabaseEngine.
NullDatabase == [engine |-> FALSE, tableColumns |-> <<>>]
Engine(cols) == [engine |-> TRUE, tableColumns |-> cols]

\* The workflow variables before any invocation; the pure specifications keep
\* them so.
NoWorkflow ==
    /\ database = NullDatabase
    /\ workspaceTables = <<>>
    /\ factoryFile = NoFile
    /\ pc = [i \in Invocations |-> "idle"]
    /\ modelName = [i \in Invocations |-> ""]
    /\ content = [i \in Invocations |-> ""]
    /\ columns = [i \in Invocations |-> <<>>]
    /\ newContent = [i \in Invocations |-> ""]
    /\ log = [i \in Invocations |-> <<>>]

Init ==
    /\ stage = "workflow"
    /\ column = NoColumn
    /\ fakerMethod = ""
    /\ inColumns = <<>>
    /\ inContent = ""
    /\ definitions = ""
    /\ updatedContent = ""
    /\ reapplied = ""
    /\ database \in {NullDatabase} \cup {Engine(cols) : cols \in TableColumns}
    /\ workspaceTables \in {<<>>, <<"users">>}
    /\ factoryFile \in {NoFile} \cup {File(t) : t \in Skeletons}
    /\ pc = [i \in Invocations |-> "idle"]
    /\ modelName = [i \in Invocations |-> ""]
    /\ content = [i \in Invocations |-> ""]
    /\ columns = [i \in Invocations |-> <<>>]
    /\ newContent = [i \in Invocations |-> ""]
    /\ log = [i \in Invocations |-> <<>>]

\* isConnected(database)
isConnected == ~(~database.engine \/ Len(workspaceTables) = 0)

Logged(i, events) == log' = [log EXCEPT ![i] = log[i] \o events]

\* One position shared by all invocations (a generator kept in a singleton).
Goto_Shared(i, label) == pc' = [j \in Invocations |-> label]

\* Each invocation has its own generator (new LaravelFactoryGenerator) and its
\* own suspended async call.
Goto(i, label) == pc' = [pc EXCEPT ![i] = label]

\* The command handler calls generateFactory, which runs up to its first await:
\* the three early returns, then the findFiles call for an existing factory.
Start(i) ==
    /\ pc[i] = "idle"
    /\ \E name \in ModelNames, artisan \in BOOLEAN :
         /\ modelName' = [modelName EXCEPT ![i] = name]
         /\ IF trim(name) = ""
            THEN Goto(i, "done") /\ Logged(i, <<"error:Please provide a model name.">>)
            ELSE IF ~isConnected
            THEN /\ Goto(i, "done")
                 /\ Logged(i, <<"error:No database connection found.",
                                "showMissingDatabaseNotification">>)
            ELSE IF ~artisan
            THEN Goto(i, "done") /\ Logged(i, <<"ArtisanService.create:none">>)
            ELSE Goto(i, "findExisting") /\ Logged(i, <<"ArtisanService.create:ok">>)
    /\ UNCHANGED <<database, workspaceTables, factoryFile, content, columns, newContent>>
    /\ UNCHANGED pureVars

\* const existingFactoryPath = await this.findFactoryFile(factoryFileName)
FindExisting(i) ==
    /\ pc[i] = "findExisting"
    /\ IF factoryFile.exists
       THEN Goto(i, "prompt") /\ Logged(i, <<"findExisting:found", "warning:already exists">>)
       ELSE Goto(i, "runCommand") /\ Logged(i, <<"findExisting:none">>)
    /\ UNCHANGED <<database, workspaceTables, factoryFile, modelName, content, columns, newContent>>
    /\ UNCHANGED pureVars

\* Where each answer to the warning leads.
afterPrompt_DismissOverwrites(action) ==
    IF action = "open" THEN "openExisting" ELSE "runCommand"

afterPrompt(action) ==
    IF action = "open" THEN "openExisting"
    ELSE IF action # "overwrite" THEN "done"
    ELSE "runCommand"

\* The user answers (or dismisses) `Factory ... already exists`.
Prompt(i) ==
    /\ pc[i] = "prompt"
    /\ \E action \in {"open", "overwrite", "undefined"} :
         /\ Goto(i, afterPrompt(action))
         /\ Logged(i, <<"prompt:" \o action>>)
    /\ UNCHANGED <<database, workspaceTables, factoryFile, modelName, content, columns, newContent>>
    /\ UNCHANGED pureVars

\* openTextDocument / showTextDocument of the existing factory, then return.
OpenExisting(i) ==
    /\ pc[i] = "openExisting"
    /\ Goto(i, "done")
    /\ Logged(i, <<"openTextDocument:existing">>)
    /\ UNCHANGED <<database, workspaceTables, factoryFile, modelName, content, columns, newContent>>
    /\ UNCHANGED pureVars

\* await artisan.runCommand('make:factory', [factoryName]): the build tool is
\* opaque; on success it may have written a skeleton, left an existing file as
\* it was, or put the file where findFiles does not look.
RunCommand(i) ==
    /\ pc[i] = "runCommand"
    /\ \/ /\ Goto(i, "findCreated")
          /\ Logged(i, <<"make:factory:ok">>)
          /\ factoryFile' \in {File(t) : t \in Skeletons} \cup {factoryFile}
       \/ /\ Goto(i, "done")
          /\ Logged(i, <<"make:factory:failed">>)
          /\ UNCHANGED factoryFile
    /\ UNCHANGED <<database, workspaceTables, modelName, content, columns, newContent>>
    /\ UNCHANGED pureVars

\* const factoryPath = await this.findFactoryFile(factoryFileName)
FindCreated(i) ==
    /\ pc[i] = "findCreated"
    /\ IF factoryFile.exists
       THEN Goto(i, "getTable") /\ Logged(i, <<"findCreated:found">>)
       ELSE /\ Goto(i, "done")
            /\ Logged(i, <<"findCreated:none", "error:Factory file not found after creation.">>)
    /\ UNCHANGED <<database, workspaceTables, factoryFile, modelName, content, columns, newContent>>
    /\ UNCHANGED pureVars

\* const tableNameForModel = await getTable(modelFilePath, modelName); with a
\* table name the try block starts and updateFactoryContent calls fs.readFile.
GetTable(i) ==
    /\ pc[i] = "getTable"
    /\ \/ Goto(i, "readFile") /\ Logged(i, <<"getTable:ok">>)
       \/ /\ Goto(i, "done")
          /\ Logged(i, <<"getTable:none", "error:Could not determine table name">>)
    /\ UNCHANGED <<database, workspaceTables, factoryFile, modelName, content, columns, newContent>>
    /\ UNCHANGED pureVars

\* A failure swallowed inside updateFactoryContent: the try block goes on.
Caught_Swallowed(i, failure) ==
    /\ Goto(i, "notify")
    /\ Logged(i, <<failure, "info:Created factory">>)

\* The catch block of generateFactory.
Caught(i, failure) ==
    /\ Goto(i, "done")
    /\ Logged(i, <<failure, "error:Failed to update factory content">>)

\* const content = await fs.readFile(factoryPath, 'utf8')
ReadFile(i) ==
    /\ pc[i] = "readFile"
    /\ \/ /\ factoryFile.exists
          /\ content' = [content EXCEPT ![i] = factoryFile.text]
          /\ Goto(i, "getColumns")
          /\ Logged(i, <<"readFile:ok">>)
       \/ /\ Caught(i, "readFile:failed")
          /\ UNCHANGED content
    /\ UNCHANGED <<database, workspaceTables, factoryFile, modelName, columns, newContent>>
    /\ UNCHANGED pureVars

\* const columns = await this.database!.getColumns(tableName); then the
\* definitions and the replace, synchronously, and the call of fs.writeFile.
GetColumns(i) ==
    /\ pc[i] = "getColumns"
    /\ \/ /\ columns' = [columns EXCEPT ![i] = database.tableColumns]
          /\ newContent' = [newContent EXCEPT ![i] =
                 replace(content[i],
                         replacementFor(generateColumnDefinitions(database.tableColumns)))]
          /\ Goto(i, "writeFile")
          /\ Logged(i, <<"getColumns:ok">>)
       \/ /\ Caught(i, "getColumns:failed")
          /\ UNCHANGED <<columns, newContent>>
    /\ UNCHANGED <<database, workspaceTables, factoryFile, modelName, content>>
    /\ UNCHANGED pureVars

\* await fs.writeFile(factoryPath, updatedContent, 'utf8'); then
\* updateFactoryContent returns and showInformationMessage is called.
WriteFile(i) ==
    /\ pc[i] = "writeFile"
    /\ \/ /\ factoryFile' = File(newContent[i])
          /\ Goto(i, "notify")
          /\ Logged(i, <<"writeFile:ok", "info:Created factory">>)
       \/ /\ Caught(i, "writeFile:failed")
          /\ UNCHANGED factoryFile
    /\ UNCHANGED <<database, workspaceTables, modelName, content, columns, newContent>>
    /\ UNCHANGED pureVars

\* The user answers (or dismisses) `Created factory ...`.
Notify(i) ==
    /\ pc[i] = "notify"
    /\ \E action \in {"open", "undefined"} :
         /\ Goto(i, IF action = "open" THEN "openCreated" ELSE "done")
         /\ Logged(i, <<"notify:" \o action>>)
    /\ UNCHANGED <<database, workspaceTables, factoryFile, modelName, content, columns, newContent>>
    /\ UNCHANGED pureVars

\* openTextDocument / showTextDocument of the new factory, inside the try block.
OpenCreated(i) ==
    /\ pc[i] = "openCreated"
    /\ \/ Goto(i, "done") /\ Logged(i, <<"openTextDocument:ok">>)
       \/ Caught(i, "openTextDocument:failed")
    /\ UNCHANGED <<database, workspaceTables, factoryFile, modelName, content, columns, newContent>>
    /\ UNCHANGED pureVars

Next ==
    \E i \in Invocations :
        \/ Start(i)
        \/ FindExisting(i)
        \/ Prompt(i)
        \/ OpenExisting(i)
        \/ RunCommand(i)
        \/ FindCreated(i)
        \/ GetTable(i)
        \/ ReadFile(i)
        \/ GetColumns(i)
        \/ WriteFile(i)
        \/ Notify(i)
        \/ OpenCreated(i)

Spec == Init /\ [][Next]_vars

-----------------------------------------------------------------------------
(* Inputs of the classifier                                                *)

ColumnNames ==
    {"email", "EMAIL", "user_email_name", "Phone_Name", "name", "NickName",
     "phone", "phone_address", "home_address", "ADDRESS", "Email_Address",
     "age", "bio", "widget_count", "mail", "nam"}

ColumnTypes ==
    typeMapKeys \cup
    {"VARCHAR", "Integer", "TimeStamp", "smallint", "", "constructor",
     "__proto__", "toString"}

Columns == [name : ColumnNames, type : ColumnTypes]

InitClassify ==
    /\ stage = "column"
    /\ column \in Columns
    /\ fakerMethod = ""
    /\ inColumns = <<>>
    /\ inContent = ""
    /\ definitions = ""
    /\ updatedContent = ""
    /\ reapplied = ""
    /\ NoWorkflow

Classify ==
    /\ stage = "column"
    /\ fakerMethod' = getFakerMethodForColumn(column)
    /\ stage' = "classified"
    /\ UNCHANGED <<column, inColumns, inContent, definitions, updatedContent, reapplied>>
    /\ UNCHANGED flowVars

NextClassify == Classify

SpecClassify == InitClassify /\ [][NextClassify]_vars


-----------------------------------------------------------------------------
(* Inputs of the renderer and of the splice                                *)

MaxColumns == 2

GenColumns ==
    {[name |-> "email", type |-> "varchar"],
     [name |-> "age",   type |-> "integer"],
     [name |-> "bio",   type |-> "TEXT"],
     [name |-> "x];y",  type |-> "smallint"],
     [name |-> "z$&",   type |-> "uuid"]}

FileTexts ==
    {"<?php\n    public function definition(): array\n    {\n        return [\n            //\n        ];\n    }\n",
     "return [];",
     "a return [1]; b return [2]; c",
     "]; return return [ x ]; ];",
     "<?php\nclass UserFactory {}\n",
     "return [ 'a' => 1, ]",
     "]; return [",
     "RETURN [1]; return[2]; return  [3];"}

InitGen ==
    /\ stage = "columns"
    /\ column = NoColumn
    /\ fakerMethod = ""
    /\ inColumns = <<>>
    /\ inContent \in FileTexts
    /\ definitions = ""
    /\ updatedContent = ""
    /\ reapplied = ""
    /\ NoWorkflow

\* The database-introspection collaborator supplies one more column.
AddColumn ==
    /\ stage = "columns"
    /\ Len(inColumns) < MaxColumns
    /\ \E col \in GenColumns : inColumns' = Append(inColumns, col)
    /\ UNCHANGED <<stage, column, fakerMethod, inContent, definitions, updatedContent, reapplied>>
    /\ UNCHANGED flowVars

\* const definitions = this.generateColumnDefinitions(columns)
Generate ==
    /\ stage = "columns"
    /\ definitions' = generateColumnDefinitions(inColumns)
    /\ stage' = "generated"
    /\ UNCHANGED <<column, fakerMethod, inColumns, inContent, updatedContent, reapplied>>
    /\ UNCHANGED flowVars

\* const updatedContent = content.replace(...)
Splice ==
    /\ stage = "generated"
    /\ updatedContent' = replace(inContent, replacementFor(definitions))
    /\ stage' = "spliced"
    /\ UNCHANGED <<column, fakerMethod, inColumns, inContent, definitions, reapplied>>
    /\ UNCHANGED flowVars

\* The same splice on the text the first one produced (the Overwrite path runs
\* updateFactoryContent on a file that was spliced before).
SpliceAgain ==
    /\ stage = "spliced"
    /\ reapplied' = replace(updatedContent, replacementFor(definitions))
    /\ stage' = "respliced"
    /\ UNCHANGED <<column, fakerMethod, inColumns, inContent, definitions, updatedContent>>
    /\ UNCHANGED flowVars

NextGen == AddColumn \/ Generate \/ Splice \/ SpliceAgain

SpecGen == InitGen /\ [][NextGen]_vars

-----------------------------------------------------------------------------
(* Properties of the classifier                                            *)

\* `sub` (lower case) occurs in s at some position, letters compared without
\* regard to case.
ContainsIgnoringCase(s, sub) ==
    \E p \in 1..(Len(s) - Len(sub) + 1) :
        \A k \in 1..Len(sub) :
            LET c == CharAt(s, p + k - 1)
                d == CharAt(sub, k)
            IN  \/ c = d
                \/ \E i \in 1..Len(LowerCase) :
                       CharAt(LowerCase, i) = d /\ CharAt(UpperCase, i) = c

NameMatched(name) ==
    \/ ContainsIgnoringCase(name, "email")
    \/ ContainsIgnoringCase(name, "name")
    \/ ContainsIgnoringCase(name, "phone")
    \/ ContainsIgnoringCase(name, "address")

\* C1: the classifier decides by the column name first, case-insensitively and
\* in the order email, name, phone, address (first match wins); in these cases
\* the result is the same for every declared type.
C1_NameHeuristicsFirst ==
    stage = "classified" =>
        LET hasEmail   == ContainsIgnoringCase(column.name, "email")
            hasName    == ContainsIgnoringCase(column.name, "name")
            hasPhone   == ContainsIgnoringCase(column.name, "phone")
            hasAddress == ContainsIgnoringCase(column.name, "address")
        IN  /\ hasEmail => fakerMethod = "fake()->safeEmail()"
            /\ (~hasEmail /\ hasName) => fakerMethod = "fake()->name()"
            /\ (~hasEmail /\ ~hasName /\ hasPhone) => fakerMethod = "fake()->phoneNumber()"
            /\ (~hasEmail /\ ~hasName /\ ~hasPhone /\ hasAddress)
                   => fakerMethod = "fake()->address()"
            /\ NameMatched(column.name) =>
                   \A t \in ColumnTypes :
                       getFakerMethodForColumn([name |-> column.name, type |-> t]) = fakerMethod

\* An integer column named "Phone_Name" is classified by "name", which comes
\* before "phone".
C1_Witness ==
    /\ stage = "classified"
    /\ column = [name |-> "Phone_Name", type |-> "integer"]
    /\ fakerMethod = "fake()->name()"

\* C2: a column whose name matches no heuristic gets the table entry of its
\* lowercased type when that is one of the 13 keys, and 'fake()->text()' for
\* every other type string.
C2_TableEntryOrFallback ==
    (stage = "classified" /\ ~NameMatched(column.name)) =>
        fakerMethod = IF toLowerCase(column.type) \in typeMapKeys
                      THEN typeMap[toLowerCase(column.type)]
                      ELSE "fake()->text()"

-----------------------------------------------------------------------------
(* Properties of the renderer                                              *)

NewlinesOf(text) == {i \in 1..Len(text) : CharAt(text, i) = "\n"}

\* Position of the k-th newline of text; 0 for k = 0, Len + 1 past the last.
NthNewline(text, k) ==
    IF k = 0 THEN 0
    ELSE IF k > Cardinality(NewlinesOf(text)) THEN Len(text) + 1
    ELSE CHOOSE i \in NewlinesOf(text) :
             Cardinality({j \in NewlinesOf(text) : j < i}) = k - 1

LineCount(text) == Cardinality(NewlinesOf(text)) + 1

LineOf(text, k) == SubSeq(text, NthNewline(text, k - 1) + 1, NthNewline(text, k) - 1)

ExpectedLine(col) ==
    "            '" \o col.name \o "' => " \o getFakerMethodForColumn(col) \o ","

\* C3: N columns give N lines joined by newlines, line i built from column i
\* alone, in input order; a permutation of the input gives the same
\* permutation of the lines; nothing is sorted or de-duplicated.
C3_LinesInInputOrder ==
    stage \in {"generated", "spliced", "respliced"} =>
        LET N == Len(inColumns)
        IN  /\ N = 0 => definitions = ""
            /\ N > 0 => /\ LineCount(definitions) = N
                        /\ \A i \in 1..N :
                               LineOf(definitions, i) = ExpectedLine(inColumns[i])
            /\ \A p \in Permutations(1..N) :
                   LET permuted == generateColumnDefinitions([i \in 1..N |-> inColumns[p[i]]])
                   IN  \A i \in 1..N : LineOf(permuted, i) = LineOf(definitions, p[i])

\* Two columns out of alphabetical order, and the same column twice.
C3_Witness ==
    /\ stage = "generated"
    /\ Len(inColumns) = 2
    /\ inColumns[1].name = "email"
    /\ inColumns[2].name = "age"
    /\ LineOf(definitions, 1) = "            'email' => fake()->safeEmail(),"
    /\ LineOf(definitions, 2) = "            'age' => $this->faker->numberBetween(1, 1000),"

-----------------------------------------------------------------------------
(* Properties of the splice                                                *)

ReturnsAt(text) == {p \in 1..Len(text) : startsWithAt(text, p, "return [")}
ClosesAt(text)  == {q \in 1..Len(text) : startsWithAt(text, q, "];")}

\* The starts of `return [` that have a `];` after them.
SpanStarts(text) ==
    {p \in ReturnsAt(text) : \E q \in ClosesAt(text) : q >= p + Len("return [")}

HasSpan(text) == SpanStarts(text) # {}

Least(S) == CHOOSE x \in S : \A y \in S : x <= y

SpanStart(text) == Least(SpanStarts(text))

\* Position of the first `];` after the first `return [`.
SpanClose(text) ==
    Least({q \in ClosesAt(text) : q >= SpanStart(text) + Len("return [")})

Before(text) == SubSeq(text, 1, SpanStart(text) - 1)
After(text)  == SubSeq(text, SpanClose(text) + 2, Len(text))

\* C4: with a span in the text, exactly the span from the first `return [`
\* (that has a later `];`) to the first `];` after it is replaced, by the
\* replacement text as String.prototype.replace expands it; the text before and
\* after the span, later spans included, is unchanged.
C4_OneSpanReplaced ==
    (stage \in {"spliced", "respliced"} /\ HasSpan(inContent)) =>
        LET s == SpanStart(inContent)
            e == SpanClose(inContent)
            written == GetSubstitution(SubSeq(inContent, s, e + 1), inContent, s,
                                       SubSeq(inContent, s + Len("return ["), e - 1),
                                       replacementFor(definitions))
        IN  /\ updatedContent = Before(inContent) \o written \o After(inContent)
            /\ SubSeq(updatedContent, 1, s - 1) = Before(inContent)
            /\ SubSeq(updatedContent,
                      Len(updatedContent) - Len(After(inContent)) + 1,
                      Len(updatedContent)) = After(inContent)

\* A text with two spans: the second one is still there after the splice.
C4_Witness ==
    /\ stage = "spliced"
    /\ inContent = "a return [1]; b return [2]; c"
    /\ inColumns = <<[name |-> "age", type |-> "integer"]>>
    /\ updatedContent =
         "a return [\n            'age' => $this->faker->numberBetween(1, 1000),\n        ]; b return [2]; c"

\* C5: the text written in place of the span is `return [` + newline + the
\* definitions block verbatim + newline + eight spaces + `];`, for every
\* column sequence, `$` followed by & ' ` $ or a digit in a name included.
C5_DefinitionsVerbatim ==
    (stage \in {"spliced", "respliced"} /\ HasSpan(inContent)) =>
        updatedContent =
            Before(inContent) \o "return [\n" \o definitions \o "\n        ];" \o After(inContent)

ContainsText(s, sub) == \E p \in 1..Len(s) : startsWithAt(s, p, sub)

\* C10: applying the splice to its own result with the same definitions block
\* gives the same text as applying it once, for every text and every column
\* sequence, a column name containing `];` included.
C10_SpliceIdempotent ==
    stage = "respliced" => reapplied = updatedContent

\* The splice does reproduce its result when the definitions block contains
\* neither `];` nor `$` followed by one of & ` ' $ 0 1.
C10_IdempotentOnPlainNames ==
    (/\ stage = "respliced"
     /\ ~ContainsText(definitions, "];")
     /\ \A x \in {"$&", "$`", "$'", "$$", "$0", "$1"} : ~ContainsText(definitions, x))
        => reapplied = updatedContent

\* Without any `$` in a column name the second application still differs.
C10_IdempotentOnDollarFreeNames ==
    (/\ stage = "respliced"
     /\ \A k \in 1..Len(inColumns) : ~ContainsText(inColumns[k].name, "$"))
        => reapplied = updatedContent

-----------------------------------------------------------------------------
(* Properties of the workflow                                              *)

Events(i) == {log[i][k] : k \in 1..Len(log[i])}

Count(seq, e) == Cardinality({k \in 1..Len(seq) : seq[k] = e})

\* C6: when the text read from the factory file has no `return [ ... ];` span,
\* the splice gives the text back unchanged for every definitions block, and
\* the workflow writes that text back and shows 'Created factory' with no
\* error message.
C6_NoSpanIsSilentNoOp ==
    [][\A i \in Invocations :
          /\ (pc[i] = "getColumns" /\ pc'[i] = "writeFile" /\ ~HasSpan(content[i]))
                 => /\ newContent'[i] = content[i]
                    /\ \A cols \in TableColumns :
                           replace(content[i],
                                   replacementFor(generateColumnDefinitions(cols))) = content[i]
          /\ (pc[i] = "writeFile" /\ pc'[i] = "notify" /\ ~HasSpan(content[i]))
                 => /\ factoryFile' = File(content[i])
                    /\ log'[i] = log[i] \o <<"writeFile:ok", "info:Created factory">>
                    /\ \A k \in 1..Len(log'[i]) : SubSeq(log'[i][k], 1, 6) # "error:"
      ]_vars

\* A file without the literal was read, written back as it was, and the
\* success notification is up.
C6_Witness ==
    \E i \in Invocations :
        /\ pc[i] = "notify"
        /\ content[i] = "<?php\nclass UserFactory {}\n"
        /\ factoryFile = File("<?php\nclass UserFactory {}\n")
        /\ log[i][Len(log[i])] = "info:Created factory"

InProgress(i) == pc[i] \notin {"idle", "done"}

\* The steps that run the build tool, read or write the factory file.
FileSteps == {"runCommand", "readFile", "writeFile"}

\* Invocation i has read the factory file and not yet written it back.
BetweenReadAndWrite(i) == pc[i] \in {"getColumns", "writeFile"}

C7_AtMostOneInProgress ==
    Cardinality({i \in Invocations : InProgress(i)}) <= 1

ProgramOrder ==
    {<<"idle", "findExisting">>, <<"idle", "done">>,
     <<"findExisting", "prompt">>, <<"findExisting", "runCommand">>,
     <<"prompt", "openExisting">>, <<"prompt", "runCommand">>, <<"prompt", "done">>,
     <<"openExisting", "done">>,
     <<"runCommand", "findCreated">>, <<"runCommand", "done">>,
     <<"findCreated", "getTable">>, <<"findCreated", "done">>,
     <<"getTable", "readFile">>, <<"getTable", "done">>,
     <<"readFile", "getColumns">>, <<"readFile", "done">>,
     <<"getColumns", "writeFile">>, <<"getColumns", "done">>,
     <<"writeFile", "notify">>, <<"writeFile", "done">>,
     <<"notify", "openCreated">>, <<"notify", "done">>,
     <<"openCreated", "done">>}

WriteEvents == {"writeFile:ok", "writeFile:failed"}
MakeEvents  == {"make:factory:ok", "make:factory:failed"}

\* What an invocation has logged when it calls fs.writeFile.
RunsBeforeWrite ==
    {<<"ArtisanService.create:ok", "findExisting:none", "make:factory:ok",
       "findCreated:found", "getTable:ok", "readFile:ok", "getColumns:ok">>,
     <<"ArtisanService.create:ok", "findExisting:found", "warning:already exists",
       "prompt:overwrite", "make:factory:ok", "findCreated:found", "getTable:ok",
       "readFile:ok", "getColumns:ok">>}

\* The events that end a run, each with what may still follow it.
EarlyReturns ==
    [e \in {"error:Please provide a model name.", "error:No database connection found.",
            "ArtisanService.create:none", "prompt:open", "prompt:undefined",
            "make:factory:failed", "findCreated:none", "getTable:none"} |->
        CASE e = "error:No database connection found." -> {"showMissingDatabaseNotification"}
          [] e = "prompt:open"      -> {"openTextDocument:existing"}
          [] e = "findCreated:none" -> {"error:Factory file not found after creation."}
          [] e = "getTable:none"    -> {"error:Could not determine table name"}
          [] OTHER                  -> {}]

\* C8: a run writes the factory file at most once, and only after, in this
\* order: a non-blank model name, a connected database with a table, the
\* build-tool service, no existing file or the answer Overwrite, a successful
\* make:factory, the file found, the table name resolved; a run that fails one
\* of these returns without any later step, and after Open Existing or a
\* dismissed prompt it neither runs the build tool nor writes.
C8_WriteOnlyAfterAllChecks ==
    \A i \in Invocations :
        /\ Cardinality({k \in 1..Len(log[i]) : log[i][k] \in WriteEvents}) <= 1
        /\ \A k \in 1..Len(log[i]) :
               log[i][k] \in WriteEvents =>
                   /\ trim(modelName[i]) # ""
                   /\ database.engine /\ Len(workspaceTables) >= 1
                   /\ SubSeq(log[i], 1, k - 1) \in RunsBeforeWrite
        /\ \A k \in 1..Len(log[i]) :
               log[i][k] \in DOMAIN EarlyReturns =>
                   /\ \A m \in (k + 1)..Len(log[i]) : log[i][m] \in EarlyReturns[log[i][k]]
                   /\ pc[i] \in {"done", "openExisting"}
        /\ (Events(i) \cap {"prompt:open", "prompt:undefined"} # {})
               => Events(i) \cap (WriteEvents \cup MakeEvents) = {}
        /\ pc[i] # "idle" =>
               LET blank     == trim(modelName[i]) = ""
                   connected == database.engine /\ Len(workspaceTables) >= 1
               IN  /\ ("error:Please provide a model name." \in Events(i)) <=> blank
                   /\ ("error:No database connection found." \in Events(i))
                          <=> (~blank /\ ~connected)
                   /\ (Events(i) \cap {"ArtisanService.create:ok",
                                       "ArtisanService.create:none"} # {})
                          <=> (~blank /\ connected)

\* A run that overwrote an existing factory.
C8_Witness ==
    \E i \in Invocations :
        /\ "prompt:overwrite" \in Events(i)
        /\ "writeFile:ok" \in Events(i)
        /\ pc[i] = "done"

UpdateFailures == {"readFile:failed", "getColumns:failed", "writeFile:failed"}

\* C9: 'Created factory' is shown only right after the write completed; a
\* failed read, column fetch or write is caught, shows exactly one 'Failed to
\* update factory content' and never the success notification; after a failed
\* read or column fetch the run attempts no write.
C9_NotifyAfterWriteErrorsCaught ==
    \A i \in Invocations :
        /\ \A k \in 1..Len(log[i]) :
               log[i][k] = "info:Created factory" => (k > 1 /\ log[i][k - 1] = "writeFile:ok")
        /\ (Events(i) \cap UpdateFailures # {}) =>
               /\ Count(log[i], "error:Failed to update factory content") = 1
               /\ "info:Created factory" \notin Events(i)
               /\ pc[i] = "done"
        /\ (Events(i) \cap {"readFile:failed", "getColumns:failed"} # {}) =>
               Events(i) \cap WriteEvents = {}

\* A run whose column fetch failed.
C9_Witness ==
    \E i \in Invocations :
        /\ "getColumns:failed" \in Events(i)
        /\ log[i][Len(log[i])] = "error:Failed to update factory content"
        /\ pc[i] = "done"

=============================================================================
